---- MODULE Spec2Model ----
(***************************************************************************)
(* Secondary indexes of the block ledger                                   *)
(* (openchain/ledger/blockchain_indexes.go).                               *)
(*                                                                         *)
(* A byte is a number in 0..255 and a []byte or a string is a sequence of  *)
(* bytes.  Numbers are uint64 in the source; the model checker's integers  *)
(* are 32 bit wide, so block numbers and offsets range up to 2^31 - 1      *)
(* (five-byte varints).  No operation of the file does arithmetic on them  *)
(* other than the varint encoding, so the width plays no role below 2^31.  *)
(***************************************************************************)
EXTENDS Integers, Sequences, FiniteSets, TLC

VARIABLES
    store,        \* the index column family of the database: key -> value
    writeBatch,   \* the caller's write batch for the block being committed: its puts
    phase,        \* "idle" | "finalized" | "pending" | "aborted" | "committed": of cur
    cur,          \* the block last handed to createIndexesSync, with the puts it got
    height,       \* the number of committed blocks: the next block number
    lastQuery,    \* the lookup made in the last step and its result
    rerun,        \* a second extraction of cur, made in the last step
    cin,          \* codec: the inputs drawn
    cout          \* codec: the outputs computed

vars == <<store, writeBatch, phase, cur, height, lastQuery, rerun, cin, cout>>

---------------------------------------------------------------------------
(* Bounds of the model                                                     *)

MaxSmallNum == 3    \* block numbers / offsets 0..MaxSmallNum, plus the varint boundaries
MaxBufLen   == 2    \* length of the raw buffers handed to the decoders
MaxKeyLen   == 2    \* length of the hash / GUID / address payloads of the key checks
MaxAddrLen  == 2    \* length of the addresses of the composite-key check
MaxBlocks   == 2    \* committed blocks
MaxTxs      == 2    \* transactions per block
MaxSeed     == 1    \* start offsets of a map iteration (Go randomises the start)

---------------------------------------------------------------------------
(* Constants of the source                                                 *)

prefixBlockHashKey == 1
prefixTxGUIDKey == 2
prefixAddressBlockNumCompositeKey == 3

\* []byte("TODO:Fetch guid from Tx")
TodoGUID ==
    <<84, 79, 68, 79, 58, 70, 101, 116, 99, 104, 32, 103, 117, 105, 100, 32,
      102, 114, 111, 109, 32, 84, 120>>

\* "address1", "address2"
Address1 == <<97, 100, 100, 114, 101, 115, 115, 49>>
Address2 == <<97, 100, 100, 114, 101, 115, 115, 50>>

ErrNil == "nil"
ErrUnexpectedEOF == "unexpected EOF"
ErrOverflow == "proto: integer overflow"
ErrStore == "StoreError"

---------------------------------------------------------------------------
(* Variable-width integers (golang/protobuf, as called by the file)        *)

\* proto.EncodeVarint / Buffer.EncodeVarint: seven bits per byte, low group
\* first, the high bit set on every byte but the last.
RECURSIVE EncodeVarint(_)
EncodeVarint(x) ==
    IF x < 128 THEN <<x>>
    ELSE <<(x % 128) + 128>> \o EncodeVarint(x \div 128)

RECURSIVE Pow128(_)
Pow128(k) == IF k = 0 THEN 1 ELSE 128 * Pow128(k - 1)

\* The decoding loop shared by proto.DecodeVarint and Buffer.DecodeVarint:
\* reads from 0-based position i, having consumed k bytes and accumulated x.
\* More than ten bytes do not fit 64 bits.  x is a named result of the loop:
\* when the buffer ends inside a varint, or the varint overflows, the bits
\* accumulated so far come back with the error, and the read position stays
\* where the varint started.
RECURSIVE VarintLoop(_, _, _, _)
VarintLoop(buf, i, k, x) ==
    IF k >= 10 THEN [x |-> x, index |-> i - k, err |-> ErrOverflow]
    ELSE IF i >= Len(buf) THEN [x |-> x, index |-> i - k, err |-> ErrUnexpectedEOF]
    ELSE LET b  == buf[i + 1]
             x2 == x + (b % 128) * Pow128(k)
         IN  IF b < 128 THEN [x |-> x2, index |-> i + 1, err |-> ErrNil]
             ELSE VarintLoop(buf, i + 1, k + 1, x2)

\* proto.DecodeVarint(buf) (x, n): n = 0 and x = 0 when no varint can be read.
DecodeVarint(buf) ==
    LET r == VarintLoop(buf, 0, 0, 0)
    IN  IF r.err = ErrNil THEN <<r.x, r.index>> ELSE <<0, 0>>

\* (*proto.Buffer).DecodeVarint at read position index: the value (the partial
\* value on error), the error and the new read position (unchanged on error).
BufferDecodeVarint(buf, index) == VarintLoop(buf, index, 0, 0)

\* (*proto.Buffer).EncodeRawBytes: the length as a varint, then the bytes.
EncodeRawBytes(b) == EncodeVarint(Len(b)) \o b

---------------------------------------------------------------------------
(* Encoding and decoding of the index keys and values                      *)

prependKeyPrefix(prefix, key) == <<prefix>> \o key

encodeBlockNumber(blockNumber) == EncodeVarint(blockNumber)

\* The count of bytes read is dropped: a buffer that holds no varint decodes to 0.
decodeBlockNumber(blockNumberBytes) == DecodeVarint(blockNumberBytes)[1]

encodeBlockNumTxIndexSwapped(blockNumber, txIndexInBlock) ==
    EncodeVarint(txIndexInBlock) \o EncodeVarint(blockNumber)

encodeBlockNumTxIndex(blockNumber, txIndexInBlock) ==
    EncodeVarint(blockNumber) \o EncodeVarint(txIndexInBlock)

\* Both results are named: what the decoder gave is returned with its error.
decodeBlockNumTxIndex(bytes) ==
    LET r1 == BufferDecodeVarint(bytes, 0)
    IN  IF r1.err # ErrNil
        THEN [blockNum |-> r1.x, txIndex |-> 0, err |-> r1.err]
        ELSE LET r2 == BufferDecodeVarint(bytes, r1.index)
             IN  [blockNum |-> r1.x, txIndex |-> r2.x, err |-> r2.err]

encodeBlockHashKey(blockHash) == prependKeyPrefix(prefixBlockHashKey, blockHash)

encodeTxGUIDKeyHashPrefix(guidBytes) == prependKeyPrefix(prefixBlockHashKey, guidBytes)

encodeTxGUIDKey(guidBytes) == prependKeyPrefix(prefixTxGUIDKey, guidBytes)

encodeAddressBlockNumCompositeKeyNoLength(address, blockNumber) ==
    <<prefixAddressBlockNumCompositeKey>> \o address \o EncodeVarint(blockNumber)

encodeAddressBlockNumCompositeKey(address, blockNumber) ==
    <<prefixAddressBlockNumCompositeKey>> \o EncodeRawBytes(address)
        \o EncodeVarint(blockNumber)

RECURSIVE encodeListTxIndexes(_)
encodeListTxIndexes(listTx) ==
    IF listTx = <<>> THEN <<>>
    ELSE EncodeVarint(Head(listTx)) \o encodeListTxIndexes(Tail(listTx))

---------------------------------------------------------------------------
(* Blocks and transactions (protos.Block, protos.Transaction)              *)

CHAINLET_NEW == "CHAINLET_NEW"
CHAINLET_UPDATE == "CHAINLET_UPDATE"
CHAINLET_EXECUTE == "CHAINLET_EXECUTE"

\* The (executing address, type) pairs of the transactions handed over.
TxKinds ==
    {<<Address1, CHAINLET_EXECUTE>>, <<Address2, CHAINLET_NEW>>,
     <<Address1, CHAINLET_UPDATE>>}

\* The GUID of the transaction at 0-based position i of block n: unique over
\* the whole ledger.  The hash of block n: distinct for distinct numbers.
GuidOf(n, i) == <<71, n, i>>
HashOf(n) == <<72, n>>

NoBlock == [transactions |-> <<>>, number |-> 0, hash |-> <<>>, puts |-> <<>>]

\* The blocks a caller may hand over as block number n.
BlocksAt(n) ==
    UNION { { [transactions |->
                 [i \in 1..k |-> [guid       |-> GuidOf(n, i - 1),
                                  address    |-> f[i][1],
                                  type       |-> f[i][2],
                                  chainletID |-> <<67, n, i - 1>>]]]
              : f \in [1..k -> TxKinds] }
            : k \in 0..MaxTxs }

---------------------------------------------------------------------------
(* Retrieving data from the proto structures                               *)

getTxGUIDBytes(tx) == TodoGUID

getTxExecutingAddress(tx) == Address1

getAuthorisedAddresses(tx) ==
    [addresses |-> <<Address1, Address2>>, chainletID |-> tx.chainletID]

---------------------------------------------------------------------------
(* The database: the index column family and write batches                 *)

EmptyDB == [k \in {} |-> <<>>]

\* One put of a write batch.
PutCF(key, value) == [key |-> key, value |-> value]

\* The effect of one put on the column family: the last write wins.
DBPut(db, key, value) ==
    [k \in (DOMAIN db) \cup {key} |-> IF k = key THEN value ELSE db[k]]

\* The atomic commit of a write batch: its puts applied in order.
RECURSIVE ApplyBatch(_, _)
ApplyBatch(db, puts) ==
    IF puts = <<>> THEN db
    ELSE ApplyBatch(DBPut(db, Head(puts).key, Head(puts).value), Tail(puts))

\* db.GetFromIndexesCF: a point read.  The engine reports a failure of its own
\* as an error; a key that is absent is no failure: no bytes, no error.
GetFromIndexesCF(db, key, fail) ==
    IF fail THEN [value |-> <<>>, err |-> ErrStore]
    ELSE IF key \in DOMAIN db THEN [value |-> db[key], err |-> ErrNil]
    ELSE [value |-> <<>>, err |-> ErrNil]

---------------------------------------------------------------------------
(* Go maps: map[string][]T as the sequence of its (key, list) slots        *)

MapHas(m, key) == \E j \in 1..Len(m) : m[j].key = key

\* m[key] = append(m[key], v)
MapAppend(m, key, v) ==
    IF MapHas(m, key)
    THEN [j \in 1..Len(m) |->
            IF m[j].key = key THEN [key |-> key, list |-> Append(m[j].list, v)]
            ELSE m[j]]
    ELSE Append(m, [key |-> key, list |-> <<v>>])

\* for k, v := range m: the slots in order, from a start the runtime picks.
RangeOrder(m, seed) ==
    [j \in 1..Len(m) |-> m[((j - 1 + seed) % Len(m)) + 1]]

---------------------------------------------------------------------------
(* Persisting index data                                                   *)

\* The authorised addresses of a deployment transaction, accumulated into
\* addressToChainletIDsMap (which no entry is made from).
RECURSIVE AuthorisedLoop(_, _, _)
AuthorisedLoop(m, addrs, chainletID) ==
    IF addrs = <<>> THEN m
    ELSE AuthorisedLoop(MapAppend(m, Head(addrs), chainletID), Tail(addrs), chainletID)

\* One iteration of the loop over the transactions, txIndex 0-based.
TxStep(acc, tx, txIndex, blockNumber) ==
    LET txExecutingAddress == getTxExecutingAddress(tx)
        auth == getAuthorisedAddresses(tx)
    IN  [batch |-> Append(acc.batch,
                     PutCF(encodeTxGUIDKey(getTxGUIDBytes(tx)),
                           encodeBlockNumTxIndex(blockNumber, txIndex))),
         addressToTxIndexesMap |->
             MapAppend(acc.addressToTxIndexesMap, txExecutingAddress, txIndex),
         addressToChainletIDsMap |->
             IF tx.type \in {CHAINLET_NEW, CHAINLET_UPDATE}
             THEN AuthorisedLoop(acc.addressToChainletIDsMap, auth.addresses,
                                 auth.chainletID)
             ELSE acc.addressToChainletIDsMap]

RECURSIVE TxLoop(_, _, _, _)
TxLoop(acc, transactions, txIndex, blockNumber) ==
    IF txIndex >= Len(transactions) THEN acc
    ELSE TxLoop(TxStep(acc, transactions[txIndex + 1], txIndex, blockNumber),
                transactions, txIndex + 1, blockNumber)

\* The loop over addressToTxIndexesMap, in the order the range yields.
RECURSIVE AddressLoop(_, _, _)
AddressLoop(batch, slots, blockNumber) ==
    IF slots = <<>> THEN batch
    ELSE AddressLoop(
           Append(batch,
                  PutCF(encodeAddressBlockNumCompositeKey(Head(slots).key, blockNumber),
                        encodeListTxIndexes(Head(slots).list))),
           Tail(slots), blockNumber)

\* The batch addIndexDataForPersistence leaves: the puts it adds to writeBatch.
IndexPuts(block, blockNumber, blockHash, batch, seed) ==
    LET first == Append(batch,
                   PutCF(encodeBlockHashKey(blockHash), encodeBlockNumber(blockNumber)))
        acc   == TxLoop([batch |-> first,
                         addressToTxIndexesMap |-> <<>>,
                         addressToChainletIDsMap |-> <<>>],
                        block.transactions, 0, blockNumber)
    IN  AddressLoop(acc.batch, RangeOrder(acc.addressToTxIndexesMap, seed), blockNumber)

\* A variant that writes the hash entry through the database handle at once.
addIndexDataForPersistenceDirectPut(db, block, blockNumber, blockHash, batch, seed) ==
    [writeBatch |-> IndexPuts(block, blockNumber, blockHash, batch, seed),
     db  |-> DBPut(db, encodeBlockHashKey(blockHash), encodeBlockNumber(blockNumber)),
     err |-> ErrNil]

\* A variant that leaves out a block whose hash the database already holds.
addIndexDataForPersistenceSkipKnown(db, block, blockNumber, blockHash, batch, seed) ==
    [writeBatch |-> IF encodeBlockHashKey(blockHash) \in DOMAIN db THEN batch
                    ELSE IndexPuts(block, blockNumber, blockHash, batch, seed),
     db  |-> db,
     err |-> ErrNil]

\* addIndexDataForPersistence: db is the database behind db.GetDBHandle(), of
\* which only the column family handle is used; every entry goes to writeBatch.
addIndexDataForPersistence(db, block, blockNumber, blockHash, batch, seed) ==
    [writeBatch |-> IndexPuts(block, blockNumber, blockHash, batch, seed),
     db  |-> db,
     err |-> ErrNil]

createIndexesSync(db, block, blockNumber, blockHash, batch, seed) ==
    addIndexDataForPersistence(db, block, blockNumber, blockHash, batch, seed)

---------------------------------------------------------------------------
(* Lookups                                                                 *)

fetchBlockNumberByBlockHashFromDB(db, blockHash, fail) ==
    LET r == GetFromIndexesCF(db, encodeBlockHashKey(blockHash), fail)
    IN  IF r.err # ErrNil THEN [blockNumber |-> 0, err |-> r.err]
        ELSE [blockNumber |-> decodeBlockNumber(r.value), err |-> ErrNil]

fetchTransactionIndexByGUIDFromDB(db, txGUID, fail) ==
    LET r == GetFromIndexesCF(db, encodeTxGUIDKey(txGUID), fail)
    IN  IF r.err # ErrNil THEN [blockNum |-> 0, txIndex |-> 0, err |-> r.err]
        ELSE decodeBlockNumTxIndex(r.value)

fetchBlockNumberByBlockHash(db, blockHash, fail) ==
    fetchBlockNumberByBlockHashFromDB(db, blockHash, fail)

fetchTransactionIndexByGUID(db, txGUID, fail) ==
    fetchTransactionIndexByGUIDFromDB(db, txGUID, fail)

---------------------------------------------------------------------------
(* The commit path of the ledger and the lookups                           *)

NoQuery == [op |-> "none", arg |-> <<>>, fail |-> FALSE,
            blockNumber |-> 0, txIndex |-> 0, err |-> ErrNil]
NoRerun == [done |-> FALSE, puts |-> <<>>]
NoInput == [kind |-> "none"]
NoOutput == [op |-> "none"]

\* The GUIDs looked up: the placeholder and those of cur's transactions.
QueryGUIDs ==
    {TodoGUID} \cup {cur.transactions[i].guid : i \in 1..Len(cur.transactions)}

Init ==
    /\ store = EmptyDB
    /\ writeBatch = <<>>
    /\ phase = "idle"
    /\ cur = NoBlock
    /\ height = 0
    /\ lastQuery = NoQuery
    /\ rerun = NoRerun
    /\ cin = NoInput
    /\ cout = NoOutput

\* The commit pipeline finalizes block number height and opens a fresh
\* write batch for its commit.
FinalizeBlock ==
    /\ phase \notin {"finalized", "pending"}
    /\ height < MaxBlocks
    /\ \E block \in BlocksAt(height) :
         cur' = [transactions |-> block.transactions, number |-> height,
                 hash |-> HashOf(height), puts |-> <<>>]
    /\ writeBatch' = <<>>
    /\ phase' = "finalized"
    /\ lastQuery' = NoQuery
    /\ rerun' = NoRerun
    /\ UNCHANGED <<store, height, cin, cout>>

\* The caller has the indexer add the block's entries to the batch.
CreateIndexesSync ==
    /\ phase = "finalized"
    /\ \E seed \in 0..MaxSeed :
         LET r == createIndexesSync(store, [transactions |-> cur.transactions],
                                    cur.number, cur.hash, writeBatch, seed)
         IN  /\ writeBatch' = r.writeBatch
             /\ store' = r.db
    /\ cur' = [cur EXCEPT !.puts = writeBatch']
    /\ phase' = "pending"
    /\ lastQuery' = NoQuery
    /\ rerun' = NoRerun
    /\ UNCHANGED <<height, cin, cout>>

\* The engine commits the batch: all of its puts at once.
Commit ==
    /\ phase = "pending"
    /\ store' = ApplyBatch(store, writeBatch)
    /\ writeBatch' = <<>>
    /\ phase' = "committed"
    /\ height' = height + 1
    /\ lastQuery' = NoQuery
    /\ rerun' = NoRerun
    /\ UNCHANGED <<cur, cin, cout>>

\* The commit fails (or the caller gives up): the batch is dropped.
Abort ==
    /\ phase = "pending"
    /\ writeBatch' = <<>>
    /\ phase' = "aborted"
    /\ lastQuery' = NoQuery
    /\ rerun' = NoRerun
    /\ UNCHANGED <<store, cur, height, cin, cout>>

FetchBlockNumberByBlockHash ==
    /\ \E n \in 0..MaxBlocks, fail \in BOOLEAN :
         LET r == fetchBlockNumberByBlockHash(store, HashOf(n), fail)
         IN  lastQuery' = [op |-> "fetchBlockNumberByBlockHash", arg |-> HashOf(n),
                           fail |-> fail, blockNumber |-> r.blockNumber,
                           txIndex |-> 0, err |-> r.err]
    /\ rerun' = NoRerun
    /\ UNCHANGED <<store, writeBatch, phase, cur, height, cin, cout>>

FetchTransactionIndexByGUID ==
    /\ \E g \in QueryGUIDs, fail \in BOOLEAN :
         LET r == fetchTransactionIndexByGUID(store, g, fail)
         IN  lastQuery' = [op |-> "fetchTransactionIndexByGUID", arg |-> g,
                           fail |-> fail, blockNumber |-> r.blockNum,
                           txIndex |-> r.txIndex, err |-> r.err]
    /\ rerun' = NoRerun
    /\ UNCHANGED <<store, writeBatch, phase, cur, height, cin, cout>>

\* The extraction run once more on cur (same block, number and hash), into an
\* empty batch of its own.
Rerun ==
    /\ phase \in {"pending", "aborted", "committed"}
    /\ \E seed \in 0..MaxSeed :
         LET r == createIndexesSync(store, [transactions |-> cur.transactions],
                                    cur.number, cur.hash, <<>>, seed)
         IN  /\ rerun' = [done |-> TRUE, puts |-> r.writeBatch]
             /\ store' = r.db
    /\ lastQuery' = NoQuery
    /\ UNCHANGED <<writeBatch, phase, cur, height, cin, cout>>

Next ==
    \/ FinalizeBlock
    \/ CreateIndexesSync
    \/ Commit
    \/ Abort
    \/ FetchBlockNumberByBlockHash
    \/ FetchTransactionIndexByGUID
    \/ Rerun

Spec == Init /\ [][Next]_vars

---------------------------------------------------------------------------
(* The codec on its own: inputs drawn at the start, one function applied   *)

SeqsUpTo(S, maxLen) == UNION { [1..k -> S] : k \in 0..maxLen }

\* Block numbers and offsets: the small ones and both sides of every varint
\* length boundary up to five bytes.
Nums ==
    (0..MaxSmallNum) \cup
    {127, 128, 129, 255, 256, 16383, 16384, 2097151, 2097152,
     268435455, 268435456, 2147483647}

\* Raw buffers: bytes with and without the continuation bit.
Bufs == SeqsUpTo({0, 1, 127, 128, 129, 255}, MaxBufLen)

\* Payloads of hash and GUID keys and addresses: empty ones and ones that
\* start with a family prefix byte.
Payloads == SeqsUpTo({0, 1, 2, 3}, MaxKeyLen)
KeyNums == (0..MaxSmallNum) \cup {128}

\* Addresses whose bytes read as varints, and numbers of one to three bytes.
AddrStrings == SeqsUpTo({1, 3, 128}, MaxAddrLen)
AddrNums == (0..MaxSmallNum) \cup {127, 128, 129, 16384}

\* The inputs drawn: a pair of numbers, a raw buffer, two payloads with a
\* number, or two (address, number) pairs.
DrawInput ==
    \/ \E n \in Nums, i \in Nums : cin = [kind |-> "num", n |-> n, i |-> i]
    \/ \E b \in Bufs : cin = [kind |-> "buf", buf |-> b]
    \/ \E p \in Payloads, q \in Payloads, n \in KeyNums :
          cin = [kind |-> "keys", p |-> p, q |-> q, n |-> n]
    \/ \E a1 \in AddrStrings, n1 \in AddrNums, a2 \in AddrStrings, n2 \in AddrNums :
          cin = [kind |-> "addr", a1 |-> a1, n1 |-> n1, a2 |-> a2, n2 |-> n2]

InitCodec ==
    /\ store = EmptyDB
    /\ writeBatch = <<>>
    /\ phase = "idle"
    /\ cur = NoBlock
    /\ height = 0
    /\ lastQuery = NoQuery
    /\ rerun = NoRerun
    /\ DrawInput
    /\ cout = NoOutput

\* encodeBlockNumber / encodeBlockNumTxIndex, then the decoders on the result.
RoundTrip ==
    /\ cin.kind = "num"
    /\ cout.op = "none"
    /\ cout' = [op |-> "roundtrip",
                blockNumber |-> decodeBlockNumber(encodeBlockNumber(cin.n)),
                location |-> decodeBlockNumTxIndex(encodeBlockNumTxIndex(cin.n, cin.i))]
    /\ UNCHANGED <<store, writeBatch, phase, cur, height, lastQuery, rerun, cin>>

\* The decoders on a raw buffer, directly and through the lookups when the
\* buffer is the value the column family holds under the key.
Decode ==
    /\ cin.kind = "buf"
    /\ cout.op = "none"
    /\ cout' = [op |-> "decode",
                blockNumber |-> decodeBlockNumber(cin.buf),
                location |-> decodeBlockNumTxIndex(cin.buf),
                fetchedNumber |->
                    fetchBlockNumberByBlockHash(
                        DBPut(EmptyDB, encodeBlockHashKey(HashOf(0)), cin.buf),
                        HashOf(0), FALSE),
                fetchedLocation |->
                    fetchTransactionIndexByGUID(
                        DBPut(EmptyDB, encodeTxGUIDKey(TodoGUID), cin.buf),
                        TodoGUID, FALSE)]
    /\ UNCHANGED <<store, writeBatch, phase, cur, height, lastQuery, rerun, cin>>

\* The three key encoders on payloads p and q.
EncodeKeys ==
    /\ cin.kind = "keys"
    /\ cout.op = "none"
    /\ cout' = [op |-> "keys",
                hashKeyP |-> encodeBlockHashKey(cin.p),
                guidKeyP |-> encodeTxGUIDKey(cin.p),
                guidKeyQ |-> encodeTxGUIDKey(cin.q),
                addrKeyQ |-> encodeAddressBlockNumCompositeKey(cin.q, cin.n)]
    /\ UNCHANGED <<store, writeBatch, phase, cur, height, lastQuery, rerun, cin>>

\* The composite key encoder on two (address, block number) pairs.
EncodeAddressKeys ==
    /\ cin.kind = "addr"
    /\ cout.op = "none"
    /\ cout' = [op |-> "addrkeys",
                k1 |-> encodeAddressBlockNumCompositeKey(cin.a1, cin.n1),
                k2 |-> encodeAddressBlockNumCompositeKey(cin.a2, cin.n2)]
    /\ UNCHANGED <<store, writeBatch, phase, cur, height, lastQuery, rerun, cin>>

NextCodec ==
    \/ RoundTrip
    \/ Decode
    \/ EncodeKeys
    \/ EncodeAddressKeys

CodecSpec == InitCodec /\ [][NextCodec]_vars

---------------------------------------------------------------------------
(* Properties                                                              *)

\* The hashes of the committed blocks.
IndexedHashes == {HashOf(n) : n \in 0..(height - 1)}

\* C1: a lookup of a block hash that no committed block has fails with an
\* error (NotFound); it never answers a block number with a nil error.
\* (Stated as claimed; the lookup answers 0 with a nil error.)
C1_UnindexedHashNotFound ==
    (/\ lastQuery.op = "fetchBlockNumberByBlockHash"
     /\ ~lastQuery.fail
     /\ lastQuery.arg \notin IndexedHashes)
        => lastQuery.err # ErrNil

\* C2: once the batch of a block is committed, the lookup of its hash answers
\* its number, and the lookup of the GUID of its transaction at 0-based
\* position i answers (number, i).
\* (Stated as claimed; the entry is filed under a placeholder GUID.)
C2_CommittedBlockLookedUp ==
    (phase = "committed" /\ ~lastQuery.fail) =>
        /\ (lastQuery.op = "fetchBlockNumberByBlockHash" /\ lastQuery.arg = cur.hash)
              => (lastQuery.err = ErrNil /\ lastQuery.blockNumber = cur.number)
        /\ \A i \in 1..Len(cur.transactions) :
              (/\ lastQuery.op = "fetchTransactionIndexByGUID"
               /\ lastQuery.arg = cur.transactions[i].guid)
                 => /\ lastQuery.err = ErrNil
                    /\ lastQuery.blockNumber = cur.number
                    /\ lastQuery.txIndex = i - 1

\* No entry (key with its value) that cur's batch holds is in the column family.
NoEntryOfCurInStore ==
    \A j \in 1..Len(cur.puts) :
        ~(cur.puts[j].key \in DOMAIN store /\ store[cur.puts[j].key] = cur.puts[j].value)

\* A lookup made while cur is not committed shows nothing of cur: the lookup of
\* its hash answers as it does on a column family that holds nothing, and no
\* lookup of a GUID answers a place in cur.
NoLookupShowsCur ==
    /\ (lastQuery.op = "fetchBlockNumberByBlockHash" /\ lastQuery.arg = cur.hash)
          => LET r == fetchBlockNumberByBlockHash(EmptyDB, cur.hash, lastQuery.fail)
             IN  lastQuery.blockNumber = r.blockNumber /\ lastQuery.err = r.err
    /\ (lastQuery.op = "fetchTransactionIndexByGUID" /\ lastQuery.err = ErrNil)
          => lastQuery.blockNumber # cur.number

\* C3: commit atomicity.  createIndexesSync changes the write batch only: the
\* column family changes in no step but the commit of the batch, which makes
\* all the puts of the batch visible at once; while the batch of a block is
\* pending or was dropped, no entry of the block is in the column family and
\* no lookup shows one.
C3_CommitAtomicity ==
    [][ /\ (store' # store) =>
              /\ phase = "pending" /\ phase' = "committed"
              /\ writeBatch = cur.puts
              /\ store' = ApplyBatch(store, writeBatch)
              /\ \A j \in 1..Len(writeBatch) : writeBatch[j].key \in DOMAIN store'
        /\ (phase' \in {"pending", "aborted"}) =>
              (NoEntryOfCurInStore' /\ NoLookupShowsCur')
      ]_vars

\* C3 witness: the batch of block 1, with three entries or more, was dropped
\* while the column family holds the entries of block 0, and a lookup of the
\* hash of block 1 was made.
C3_Witness ==
    /\ phase = "aborted"
    /\ cur.number = 1
    /\ Len(cur.puts) >= 3
    /\ DOMAIN store # {}
    /\ lastQuery.op = "fetchBlockNumberByBlockHash"
    /\ lastQuery.arg = cur.hash

\* C4: write-once.  No put of a block's batch targets a key that holds a value
\* already or that an earlier put of the batch targets.
\* (Stated as claimed; every transaction is filed under the same GUID key.)
C4_WriteOnce ==
    (phase = "pending") =>
        /\ \A j \in 1..Len(writeBatch) : writeBatch[j].key \notin DOMAIN store
        /\ \A j1, j2 \in 1..Len(writeBatch) :
              (j1 # j2) => writeBatch[j1].key # writeBatch[j2].key

\* A buffer that holds no complete varint: empty, or every byte continues.
Truncated(buf) == \A j \in 1..Len(buf) : buf[j] >= 128

\* A buffer that holds exactly one complete varint and nothing after it.
OneVarintOnly(buf) ==
    /\ Len(buf) >= 1
    /\ buf[Len(buf)] < 128
    /\ \A j \in 1..(Len(buf) - 1) : buf[j] >= 128

\* C5: decoding a malformed value fails with an error: the block number
\* decoder (and the hash lookup that reads the value) on an empty or truncated
\* varint, the location decoder (and the GUID lookup) on a buffer with one
\* varint and no second one.
\* (Stated as claimed; the block number decoder drops the failure and gives 0.)
C5_MalformedValueFails ==
    (cout.op = "decode") =>
        /\ Truncated(cin.buf) => cout.fetchedNumber.err # ErrNil
        /\ (Truncated(cin.buf) \/ OneVarintOnly(cin.buf)) =>
              (cout.location.err # ErrNil /\ cout.fetchedLocation.err # ErrNil)

\* C6: key-family disjointness.  A hash key, a GUID key and an (address, block
\* number) key are pairwise different whatever their payloads are, each
\* starting with the prefix byte of its family.
C6_KeyFamiliesDisjoint ==
    (cout.op = "keys") =>
        /\ cout.hashKeyP # cout.guidKeyQ
        /\ cout.hashKeyP # cout.addrKeyQ
        /\ cout.guidKeyP # cout.addrKeyQ
        /\ cout.hashKeyP[1] = prefixBlockHashKey
        /\ cout.guidKeyQ[1] = prefixTxGUIDKey
        /\ cout.addrKeyQ[1] = prefixAddressBlockNumCompositeKey

\* C6 witness: the keys of a hash <<2, 3>> and of a GUID <<3>> were encoded:
\* payloads that start with prefix bytes, the hash key ending like the GUID key.
C6_Witness ==
    /\ cout.op = "keys"
    /\ cin.p = <<2, 3>>
    /\ cin.q = <<3>>
    /\ cout.hashKeyP = <<1, 2, 3>>
    /\ cout.guidKeyQ = <<2, 3>>

\* C7: round trip.  Decoding an encoded block number gives the number back;
\* decoding an encoded (block number, offset) pair gives the pair back with no
\* error.
C7_RoundTrip ==
    (cout.op = "roundtrip") =>
        /\ cout.blockNumber = cin.n
        /\ cout.location = [blockNum |-> cin.n, txIndex |-> cin.i, err |-> ErrNil]

\* C7 witness: a three-byte block number and a two-byte offset went through.
C7_Witness ==
    /\ cout.op = "roundtrip"
    /\ cin.n = 16384
    /\ cin.i = 128
    /\ cout.location.txIndex = 128

\* The 0-based positions of the transactions of address a, ascending.
RECURSIVE PositionsOf(_, _, _)
PositionsOf(transactions, a, i) ==
    IF i > Len(transactions) THEN <<>>
    ELSE (IF transactions[i].address = a THEN <<i - 1>> ELSE <<>>)
            \o PositionsOf(transactions, a, i + 1)

\* C8: the batch of a block holds one address entry per distinct executing
\* address of its transactions, under (address, block number), with the
\* positions of that address's transactions in ascending order; a block with
\* no transaction gives no address entry and one entry in all.
\* (Stated as claimed; every transaction is filed under "address1".)
C8_OneEntryPerAddress ==
    (phase = "pending") =>
        LET txs    == cur.transactions
            addrs  == {txs[i].address : i \in 1..Len(txs)}
            addrAt == {j \in 1..Len(writeBatch) :
                          writeBatch[j].key[1] = prefixAddressBlockNumCompositeKey}
        IN  /\ {writeBatch[j] : j \in addrAt}
                 = {PutCF(encodeAddressBlockNumCompositeKey(a, cur.number),
                          encodeListTxIndexes(PositionsOf(txs, a, 1))) : a \in addrs}
            /\ Cardinality(addrAt) = Cardinality(addrs)
            /\ (txs = <<>>) => Len(writeBatch) = 1

\* C9: extraction determinism.  A second run of the extraction on the same
\* block, number and hash, into an empty batch, gives the same key-to-value
\* entries as the first, whatever the map iteration started at and whatever
\* the column family holds by then.
C9_ExtractionDeterministic ==
    rerun.done => ApplyBatch(EmptyDB, rerun.puts) = ApplyBatch(EmptyDB, cur.puts)

\* C9 witness: the second run was made after the commit of a block of two
\* transactions, one of them a deployment.
C9_Witness ==
    /\ rerun.done
    /\ phase = "committed"
    /\ Len(cur.transactions) = 2
    /\ \E i \in 1..2 : cur.transactions[i].type = CHAINLET_NEW
    /\ Len(rerun.puts) = 4

\* C10: the composite key encoder is injective: two (address, block number)
\* pairs with the same key are the same pair.
C10_AddressKeyInjective ==
    (cout.op = "addrkeys") =>
        ((cout.k1 = cout.k2) => (cin.a1 = cin.a2 /\ cin.n1 = cin.n2))

\* C10 witness: the keys of (<<128>>, 1) and (<<>>, 128), whose address and
\* number bytes read the same back to back, were encoded and differ.
C10_Witness ==
    /\ cout.op = "addrkeys"
    /\ cin.a1 = <<128>> /\ cin.n1 = 1
    /\ cin.a2 = <<>> /\ cin.n2 = 128
    /\ cout.k1 = <<3, 1, 128, 1>>
    /\ cout.k2 = <<3, 0, 128, 1>>

====
